---- MODULE Spec2Model ----
(***************************************************************************)
(* BenchMyDNS: the benchmark worker (BenchThread), its results             *)
(* (ServerResult), the DNSSEC worker (SecurityThread) and the main         *)
(* window's handlers that start them and receive their signals             *)
(* (src/bench_my_dns.py).                                                  *)
(*                                                                         *)
(* Threads.  The GUI thread runs the MainWindow handlers one at a time.    *)
(* Every worker object runs run() on a thread of its own.  A signal        *)
(* emitted by run() is queued to the GUI thread (the receiver lives in     *)
(* another thread than the emitter) and its slot runs when the GUI thread  *)
(* takes it from its event queue: `queue`.                                 *)
(*                                                                         *)
(* Numbers.  Elapsed times are positive integers (milliseconds); averages  *)
(* and the reliability are exact rationals <<num, den>> in lowest terms.   *)
(***************************************************************************)
EXTENDS Integers, Sequences, FiniteSets, TLC

\* ------------------------------------------------------------------ bounds
\* Size of the server table shown in the window (DNS_SERVERS has 43 rows).
NumServers == 1
\* BenchThread objects created in one behaviour.
MaxRuns == 2
\* Largest query count handed to a BenchThread.
MaxQueryCount == 1
\* Largest elapsed time of a probe that was answered.
MaxElapsed == 2
\* SecurityThread objects created in one behaviour.
MaxSecRuns == 2
\* Runs of each kind in the specification of the whole window.
WindowRuns == 1
\* Warning boxes shown in one behaviour.
MaxWarnings == 1
\* Engine specification: lists up to SmallTargets are probed with every
\* query count, lists up to BigTargets with query count 0.
SmallTargets == 2
BigTargets == 100
\* Tester specification: the largest query count of a one-server campaign.
TesterQueries == 2
\* Security engine specification: the longest list a SecurityThread is given.
SecTargets == 3
\* The names random.choices can give the uncached phase.
NameSpace == 2
\* Ranking specification: the longest result list and the query count of the
\* run that produced it.
RankTargets == 3
RankQueries == 2

\* ------------------------------------------------------------- rationals
RECURSIVE GCD(_, _)
GCD(a, b) == IF b = 0 THEN a ELSE GCD(b, a % b)

Abs(x) == IF x < 0 THEN 0 - x ELSE x

\* n / d in lowest terms, d > 0.
Rat(n, d) ==
    LET g == GCD(Abs(n), d)
    IN  IF n = 0 THEN <<0, 1>> ELSE <<n \div g, d \div g>>

Zero == Rat(0, 1)
RatOfInt(n) == Rat(n, 1)
RatLess(x, y) == x[1] * y[2] < y[1] * x[2]
RatLeq(x, y) == x[1] * y[2] <= y[1] * x[2]
RatAdd(x, y) == Rat(x[1] * y[2] + y[1] * x[2], x[2] * y[2])
RatHalf(x) == Rat(x[1], 2 * x[2])
RatMax(x, y) == IF RatLess(x, y) THEN y ELSE x

RECURSIVE SumSeq(_)
SumSeq(s) == IF s = <<>> THEN 0 ELSE Head(s) + SumSeq(Tail(s))

RECURSIVE MinSeq(_)
MinSeq(s) ==
    IF Len(s) = 1 THEN s[1]
    ELSE LET m == MinSeq(Tail(s)) IN IF s[1] <= m THEN s[1] ELSE m

RECURSIVE MaxSeq(_)
MaxSeq(s) ==
    IF Len(s) = 1 THEN s[1]
    ELSE LET m == MaxSeq(Tail(s)) IN IF s[1] >= m THEN s[1] ELSE m

\* statistics.mean over a non-empty list
Mean(s) == Rat(SumSeq(s), Len(s))

\* ---------------------------------------------------------- server table
Servers == 1..NumServers
\* DNS_SERVERS: name -> ip; a server is its row number, which is its name.
IpOf(name) == 0 - name
\* The ordered dict {name: ip} of the rows in `sel`, as the list of names in
\* table order (dict comprehensions keep DNS_SERVERS' order).
RECURSIVE TableOrder(_, _)
TableOrder(sel, from) ==
    IF from > NumServers \/ sel = {} THEN <<>>
    ELSE IF from \in sel THEN <<from>> \o TableOrder(sel \ {from}, from + 1)
    ELSE TableOrder(sel, from + 1)

\* ------------------------------------------------------------ ServerResult
\* ServerResult(name=name, ip=ip): every other field at its default 0.
DefaultResult(name, ip) ==
    [name |-> name, ip |-> ip, cached_avg |-> Zero, uncached_avg |-> Zero,
     overall_avg |-> Zero, min_time |-> 0, max_time |-> 0,
     reliability |-> Zero, total_queries |-> 0, successful |-> 0]

\* Mutant: cached_avg + uncached_avg, not halved.
OverallAvgSum(cached_avg, uncached_avg) ==
    IF cached_avg # Zero /\ uncached_avg # Zero
    THEN RatAdd(cached_avg, uncached_avg)
    ELSE RatMax(cached_avg, uncached_avg)

\* Mutant: always (cached_avg + uncached_avg) / 2.
OverallAvgHalfSum(cached_avg, uncached_avg) ==
    RatHalf(RatAdd(cached_avg, uncached_avg))

\* overall_avg: the mean of the two averages when both are truthy (non-zero),
\* else the larger of the two.
OverallAvg(cached_avg, uncached_avg) ==
    IF cached_avg # Zero /\ uncached_avg # Zero
    THEN RatHalf(RatAdd(cached_avg, uncached_avg))
    ELSE RatMax(cached_avg, uncached_avg)

\* Mutant: the reliability is taken over query_count, not over both phases.
AggregateRelPerPhase(name, ip, cached_times, uncached_times, query_count) ==
    LET all_times == cached_times \o uncached_times
        cached_avg == IF cached_times # <<>> THEN Mean(cached_times) ELSE Zero
        uncached_avg == IF uncached_times # <<>> THEN Mean(uncached_times) ELSE Zero
    IN  [name |-> name, ip |-> ip,
         cached_avg |-> cached_avg,
         uncached_avg |-> uncached_avg,
         overall_avg |-> OverallAvg(cached_avg, uncached_avg),
         min_time |-> IF all_times # <<>> THEN MinSeq(all_times) ELSE 0,
         max_time |-> IF all_times # <<>> THEN MaxSeq(all_times) ELSE 0,
         reliability |-> IF query_count # 0
                         THEN Rat(Len(all_times) * 100, query_count)
                         ELSE Zero,
         total_queries |-> query_count * 2,
         successful |-> Len(all_times)]

\* The tail of test_single_server: the ServerResult of the collected times.
Aggregate(name, ip, cached_times, uncached_times, query_count) ==
    LET all_times == cached_times \o uncached_times
        cached_avg == IF cached_times # <<>> THEN Mean(cached_times) ELSE Zero
        uncached_avg == IF uncached_times # <<>> THEN Mean(uncached_times) ELSE Zero
    IN  [name |-> name, ip |-> ip,
         cached_avg |-> cached_avg,
         uncached_avg |-> uncached_avg,
         overall_avg |-> OverallAvg(cached_avg, uncached_avg),
         min_time |-> IF all_times # <<>> THEN MinSeq(all_times) ELSE 0,
         max_time |-> IF all_times # <<>> THEN MaxSeq(all_times) ELSE 0,
         reliability |-> IF query_count # 0
                         THEN Rat(Len(all_times) * 100, query_count * 2)
                         ELSE Zero,
         total_queries |-> query_count * 2,
         successful |-> Len(all_times)]

\* ----------------------------------------------------------------- ranking
\* Mutant: the average itself is the key, without float("inf") for no data.
LatencyKeyPlain(avg) == <<0, avg>>

\* The sort key of the three latency modes: the average when it is positive,
\* else float("inf").
LatencyKey(avg) == IF RatLess(Zero, avg) THEN <<0, avg>> ELSE <<1, Zero>>
KeyLess(a, b) == a[1] < b[1] \/ (a[1] = b[1] /\ RatLess(a[2], b[2]))
\* Mutant: "slowest first" uses the key of the latency modes, float("inf")
\* (here: above every average) for no data.
SlowKeyInf(avg) == IF RatLess(Zero, avg) THEN avg ELSE RatOfInt(1000000)

\* The key of "slowest first": overall_avg when it is positive, else 0.
SlowKey(avg) == IF RatLess(Zero, avg) THEN avg ELSE Zero

\* Mutant: "most reliable" sorts without reverse=True.
SortsBeforeLeastReliable(mode, x, y) ==
    CASE mode = 0 -> KeyLess(LatencyKey(x.cached_avg), LatencyKey(y.cached_avg))
      [] mode = 1 -> KeyLess(LatencyKey(x.uncached_avg), LatencyKey(y.uncached_avg))
      [] mode = 2 -> KeyLess(LatencyKey(x.overall_avg), LatencyKey(y.overall_avg))
      [] mode = 3 -> RatLess(SlowKey(y.overall_avg), SlowKey(x.overall_avg))
      [] OTHER    -> RatLess(x.reliability, y.reliability)

\* x is ordered strictly before y in sort mode `mode` (modes 3 and 4 sort
\* with reverse=True).
SortsBefore(mode, x, y) ==
    CASE mode = 0 -> KeyLess(LatencyKey(x.cached_avg), LatencyKey(y.cached_avg))
      [] mode = 1 -> KeyLess(LatencyKey(x.uncached_avg), LatencyKey(y.uncached_avg))
      [] mode = 2 -> KeyLess(LatencyKey(x.overall_avg), LatencyKey(y.overall_avg))
      [] mode = 3 -> RatLess(SlowKey(y.overall_avg), SlowKey(x.overall_avg))
      [] OTHER    -> RatLess(y.reliability, x.reliability)

\* sorted() is stable: an element goes behind the elements it does not sort
\* strictly before.
RECURSIVE Insert(_, _, _)
Insert(mode, sorted, x) ==
    IF sorted = <<>> THEN <<x>>
    ELSE IF SortsBefore(mode, x, Head(sorted)) THEN <<x>> \o sorted
    ELSE <<Head(sorted)>> \o Insert(mode, Tail(sorted), x)

RECURSIVE Sorted(_, _)
Sorted(mode, s) ==
    IF s = <<>> THEN <<>>
    ELSE Insert(mode, Sorted(mode, SubSeq(s, 1, Len(s) - 1)), s[Len(s)])

\* apply_filter(): what self.filtered_results is afterwards, `old` being what
\* it was before.  Nothing happens without results or for an index that is
\* none of the five modes.
ApplyFilter(res, mode, old) ==
    IF res = <<>> \/ mode \notin 0..4 THEN old ELSE Sorted(mode, res)

\* --------------------------------------------------------------- progress
\* int((idx / total) * 100) in IEEE doubles.  The double product falls just
\* short of the exact integer for these <<idx, total>> (all with total up to
\* 200), and int() truncates it to one less.
FloatShort ==
    {<<29, 50>>, <<29, 100>>, <<57, 100>>, <<58, 100>>, <<87, 150>>,
     <<58, 200>>, <<114, 200>>, <<116, 200>>}

\* Mutant: the percentage of the servers done after this one.
ProgressValAfter(idx, total) == ((idx + 1) * 100) \div total

ProgressVal(idx, total) ==
    ((idx * 100) \div total) - (IF <<idx, total>> \in FloatShort THEN 1 ELSE 0)

\* A queued signal of BenchThread t.  msg is the server named by
\* "Testing {name}..." and 0 for "Complete!".  Every queued signal has the
\* same fields; status is used by SecurityThread's result signal.
ProgressEvent(t, pct, msg) ==
    [src |-> t, kind |-> "progress", pct |-> pct, msg |-> msg, results |-> <<>>,
     status |-> ""]
FinishedEvent(t, res) ==
    [src |-> t, kind |-> "finished", pct |-> 0, msg |-> 0, results |-> res,
     status |-> ""]

\* What dns.query.udp and the timer give one probe: Failed when the call
\* raises (timeout, transport error), else the elapsed milliseconds.
Failed == 0 - 1
Elapsed == 1..MaxElapsed
ProbeOutcomes == {Failed} \cup Elapsed

\* The names asked for: "google.com" in the cached phase; in the uncached
\* phase one of the 26^8 names of 8 lowercase letters with ".com", here one of
\* NameSpace names.  No such name is "google.com" (6 letters).
CachedName == 0
RandomNames == 1..NameSpace

\* ------------------------------------------------------------------ state
VARIABLES
    bt,             \* BenchThread objects: bt[t] is the t-th one created
    hist,           \* per BenchThread: what it emitted and probed (history);
                    \* a probe is logged as <<idx, phase, outcome, name>>
    st,             \* SecurityThread objects, likewise
    shist,          \* per SecurityThread: what it emitted and probed (history)
    queue,          \* GUI event queue: queued signals not yet delivered
    checked,        \* self.checkboxes: the rows whose box is checked
    results,        \* self.results
    bench_thread,   \* self.bench_thread: 0 is None, else the BenchThread
    start_btn,      \* self.start_btn.isEnabled()
    progress,       \* self.progress.value()
    filtered_results, \* self.filtered_results
    sort_mode,      \* self.filter_combo.currentIndex()
    sec_thread,     \* self.sec_thread: 0 is None, else the SecurityThread
    sec_btn,        \* self.sec_btn.isEnabled()
    sec_prog,       \* self.sec_prog.value()
    sec_cards,      \* the cards in self.sec_layout: <<name, status>>
    warnings,       \* "Please select at least one server!" boxes shown
    gui,            \* where the GUI thread is: "idle", inside a wait(2000),
                    \* inside processEvents(), or in an open warning box
    query_spin      \* self.query_spin: the text of its line edit and its range

vars == <<bt, hist, st, shist, queue, checked, results, bench_thread, start_btn,
          progress, filtered_results, sort_mode, sec_thread, sec_btn, sec_prog,
          sec_cards, warnings, gui, query_spin>>
sortVars == <<filtered_results, sort_mode>>
benchWin == <<results, bench_thread, start_btn, progress, sortVars>>
secWin == <<sec_thread, sec_btn, sec_prog, sec_cards>>
\* Everything a step of a BenchThread leaves alone, but for the queue.
guiVars == <<checked, benchWin, secWin, warnings, gui, query_spin, st, shist>>
\* Everything a step of a SecurityThread leaves alone, but for the queue.
guiVarsSec == <<checked, benchWin, secWin, warnings, gui, query_spin, bt, hist>>

(***************************************************************************)
(* ModernSpinWidget, the query-count field.  The text of its line edit is  *)
(* either a word float() rejects or overflows on (Garbage) or a number,    *)
(* kept in halves so that int() (truncation, in _on_edit_finished) and     *)
(* round() (half to even, in value() and _clamp) give different answers.   *)
(***************************************************************************)

\* query_spin = ModernSpinWidget(minimum=3, maximum=20, value=5, ...,
\* step=1) in the window's constructor.
SpinMin == 3
SpinMax == 20
SpinValue0 == 5
SpinStep == 1

\* How far a typed number lies outside [SpinMin, SpinMax], in halves, and
\* how far setRange moves an end of the range.
MaxTyped == 5
RangeSlack == 2

\* A text, or an argument, that is the number h/2.
Num(h) == <<TRUE, h>>

\* A text float() raises on ("", "abc"), or makes inf or nan of, so that
\* int() and round() raise; as an argument of setValue, None.
Garbage == <<FALSE, 0>>

\* The texts a user types and the arguments setValue is given: -0.5 and the
\* numbers within MaxTyped halves of either end of [SpinMin, SpinMax].
TypedHalves ==
    {0 - 1} \cup
    {h \in (2 * SpinMin - MaxTyped)..(2 * SpinMax + MaxTyped) :
        h <= 2 * SpinMin + MaxTyped \/ h >= 2 * SpinMax - MaxTyped}
Typed == {Num(h) : h \in TypedHalves} \cup {Garbage}

\* int(x) of a float x = h/2: truncation towards zero.
IntOf(h) == IF h >= 0 THEN h \div 2 ELSE 0 - ((0 - h) \div 2)

\* round(x) of a float x = h/2: to the nearest integer, a tie to the even one.
RoundOf(h) ==
    LET f == h \div 2
    IN  IF h % 2 = 0 THEN f
        ELSE IF f % 2 = 0 THEN f ELSE f + 1

\* str(n) as a text of the line edit.
TextOf(n) == Num(2 * n)

\* Mutant: _clamp without the `if v > self._max` return.
ClampNoMax(w, x) ==
    IF x = Garbage THEN w.min
    ELSE LET v == RoundOf(x[2])
         IN  IF v < w.min THEN w.min ELSE v

\* _clamp(v) of the integer widget w, v being None (Garbage) or a number.
Clamp(w, x) ==
    IF x = Garbage THEN w.min
    ELSE LET v == RoundOf(x[2])
         IN  IF v < w.min THEN w.min
             ELSE IF v > w.max THEN w.max
             ELSE v

\* value(): int(round(float(text))) of whatever the line edit shows, and
\* self._min when that raises.
ValueOf(w) == IF w.text = Garbage THEN w.min ELSE RoundOf(w.text[2])

\* setValue(v): the line edit shows str(_clamp(v)); the edit, if one was
\* open, is replaced by it.
SetValueOf(w, x) ==
    [w EXCEPT !.text = TextOf(Clamp(w, x)), !.editing = FALSE, !.finished = <<>>]

\* _on_edit_finished: int(float(text)), self._min when that raises, is
\* given to setValue.
EditFinishedOf(w) ==
    [SetValueOf(w, IF w.text = Garbage THEN TextOf(w.min)
                   ELSE TextOf(IntOf(w.text[2])))
     EXCEPT !.finished = w.text]

\* The widget after __init__: setRange(min, max), setSingleStep(step) and
\* setValue(value); nothing typed yet.  Two fields are history: finished is
\* the text a finished edit found, until the next operation of the widget;
\* ranged tells that setRange was called after the construction.
NewSpin ==
    SetValueOf([text |-> TextOf(SpinValue0), min |-> SpinMin, max |-> SpinMax,
                editing |-> FALSE, finished |-> <<>>, ranged |-> FALSE],
               TextOf(SpinValue0))

Threads == 1..MaxRuns

\* A BenchThread not yet constructed.
NoThread ==
    [pc |-> "none", servers |-> <<>>, query_count |-> 0, count_is_int |-> TRUE,
     is_running |-> FALSE, idx |-> 0, i |-> 0,
     cached_times |-> <<>>, uncached_times |-> <<>>, results |-> <<>>]

\* BenchThread.__init__ followed by start(): run() is about to begin.
\* count_is_int is FALSE for a query_count that range() rejects (a float).
NewThread(servers, query_count, count_is_int) ==
    [pc |-> "loop", servers |-> servers, query_count |-> query_count,
     count_is_int |-> count_is_int, is_running |-> TRUE, idx |-> 0, i |-> 0,
     cached_times |-> <<>>, uncached_times |-> <<>>, results |-> <<>>]

NoHist ==
    [sent |-> <<>>, probe_log |-> <<>>, stopped |-> FALSE, stop_pc |-> "none",
     stop_idx |-> 0, stop_results |-> <<>>, stop_issued |-> 0]

\* QThread.isRunning()
IsRunning(t) == bt[t].pc \notin {"none", "done"}

\* The thread is inside dns.query.udp (or has passed the check before it).
InProbe(t) == bt[t].pc \in {"cprobe", "uprobe"}

\* Probes whose cancel check has passed: the completed ones and the one in flight.
Issued(t) == Len(hist[t].probe_log) + (IF InProbe(t) THEN 1 ELSE 0)

Total(t) == Len(bt[t].servers)
\* (name, ip) of the enumerate() step idx
CurName(t) == bt[t].servers[bt[t].idx + 1]

\* self.progress.emit / self.finished_signal.emit: queued to the GUI thread.
Emit(t, events) ==
    /\ queue' = queue \o events
    /\ hist' = [hist EXCEPT ![t].sent = @ \o events]

\* ------------------------------------------------------- BenchThread.run
\* Mutant: the loop over the servers never looks at the flag.
RunLoopNoCancel(t) ==
    /\ bt[t].pc = "loop"
    /\ IF bt[t].idx < Total(t)
       THEN /\ Emit(t, <<ProgressEvent(t, ProgressVal(bt[t].idx, Total(t)), CurName(t))>>)
            /\ bt' = [bt EXCEPT ![t].pc = "ccheck", ![t].i = 0,
                                ![t].cached_times = <<>>,
                                ![t].uncached_times = <<>>]
       ELSE /\ bt' = [bt EXCEPT ![t].pc = "final"]
            /\ UNCHANGED <<queue, hist>>
    /\ UNCHANGED guiVars

\* Mutant: the two lists of times are kept from one server to the next.
RunLoopKeepsTimes(t) ==
    /\ bt[t].pc = "loop"
    /\ IF bt[t].idx < Total(t) /\ bt[t].is_running
       THEN /\ Emit(t, <<ProgressEvent(t, ProgressVal(bt[t].idx, Total(t)), CurName(t))>>)
            /\ bt' = [bt EXCEPT ![t].pc = "ccheck", ![t].i = 0]
       ELSE /\ bt' = [bt EXCEPT ![t].pc = "final"]
            /\ UNCHANGED <<queue, hist>>
    /\ UNCHANGED guiVars

\* Mutant: `continue` for `break`: a stopped run stays in its loop without
\* taking the next item.
RunLoopContinue(t) ==
    /\ bt[t].pc = "loop"
    /\ IF bt[t].idx < Total(t) /\ bt[t].is_running
       THEN /\ Emit(t, <<ProgressEvent(t, ProgressVal(bt[t].idx, Total(t)), CurName(t))>>)
            /\ bt' = [bt EXCEPT ![t].pc = "ccheck", ![t].i = 0,
                                ![t].cached_times = <<>>,
                                ![t].uncached_times = <<>>]
       ELSE /\ bt' = [bt EXCEPT ![t].pc = IF bt[t].idx < Total(t) THEN "loop"
                                          ELSE "final"]
            /\ UNCHANGED <<queue, hist>>
    /\ UNCHANGED guiVars

\* for idx, (name, ip) in enumerate(...): the cancel check, then the
\* "Testing {name}..." progress signal; the loop ends when the items are
\* exhausted or on break.
RunLoop(t) ==
    /\ bt[t].pc = "loop"
    /\ IF bt[t].idx < Total(t) /\ bt[t].is_running
       THEN /\ Emit(t, <<ProgressEvent(t, ProgressVal(bt[t].idx, Total(t)), CurName(t))>>)
            /\ bt' = [bt EXCEPT ![t].pc = "ccheck", ![t].i = 0,
                                ![t].cached_times = <<>>,
                                ![t].uncached_times = <<>>]
       ELSE /\ bt' = [bt EXCEPT ![t].pc = "final"]
            /\ UNCHANGED <<queue, hist>>
    /\ UNCHANGED guiVars

\* Mutant: results.insert(0, result)
AppendResultFront(t, result) ==
    bt' = [bt EXCEPT ![t].results = <<result>> \o @, ![t].idx = @ + 1,
                     ![t].pc = "loop"]

\* results.append(result), next enumerate() step
AppendResult(t, result) ==
    bt' = [bt EXCEPT ![t].results = Append(@, result), ![t].idx = @ + 1,
                     ![t].pc = "loop"]

\* Mutant: the cached loop probes once before it looks at the count.
CachedCheckProbesFirst(t) ==
    /\ bt[t].pc = "ccheck"
    /\ IF ~bt[t].count_is_int
       THEN AppendResult(t, DefaultResult(CurName(t), IpOf(CurName(t))))
       ELSE IF (bt[t].i = 0 \/ bt[t].i < bt[t].query_count) /\ bt[t].is_running
       THEN bt' = [bt EXCEPT ![t].pc = "cprobe"]
       ELSE bt' = [bt EXCEPT ![t].pc = "ucheck", ![t].i = 0]
    /\ UNCHANGED <<hist, queue, guiVars>>

\* test_single_server, cached phase: range(self.query_count) raises for a
\* count that is no int, and the handler returns the default ServerResult;
\* else the cancel check before each probe.
CachedCheck(t) ==
    /\ bt[t].pc = "ccheck"
    /\ IF ~bt[t].count_is_int
       THEN AppendResult(t, DefaultResult(CurName(t), IpOf(CurName(t))))
       ELSE IF bt[t].i < bt[t].query_count /\ bt[t].is_running
       THEN bt' = [bt EXCEPT ![t].pc = "cprobe"]
       ELSE bt' = [bt EXCEPT ![t].pc = "ucheck", ![t].i = 0]
    /\ UNCHANGED <<hist, queue, guiVars>>

\* Mutant: a probe that raised is recorded with the time 0.
CachedProbeKeepsFailure(t) ==
    /\ bt[t].pc = "cprobe"
    /\ \E o \in ProbeOutcomes :
         /\ bt' = [bt EXCEPT ![t].pc = "ccheck", ![t].i = @ + 1,
                             ![t].cached_times =
                                 Append(@, IF o = Failed THEN 0 ELSE o)]
         /\ hist' = [hist EXCEPT
                ![t].probe_log = Append(@, <<bt[t].idx, "cached", o, CachedName>>)]
    /\ UNCHANGED <<queue, guiVars>>

\* Mutant: a probe that raised is tried again: the iteration is repeated.
CachedProbeRetries(t) ==
    /\ bt[t].pc = "cprobe"
    /\ \E o \in ProbeOutcomes :
         /\ bt' = [bt EXCEPT ![t].pc = "ccheck",
                             ![t].i = IF o = Failed THEN @ ELSE @ + 1,
                             ![t].cached_times =
                                 IF o # Failed /\ o > 0 THEN Append(@, o) ELSE @]
         /\ hist' = [hist EXCEPT
                ![t].probe_log = Append(@, <<bt[t].idx, "cached", o, CachedName>>)]
    /\ UNCHANGED <<queue, guiVars>>

\* One probe of "google.com": the blocking call returns or raises.
CachedProbe(t) ==
    /\ bt[t].pc = "cprobe"
    /\ \E o \in ProbeOutcomes :
         /\ bt' = [bt EXCEPT ![t].pc = "ccheck", ![t].i = @ + 1,
                             ![t].cached_times =
                                 IF o # Failed /\ o > 0 THEN Append(@, o) ELSE @]
         /\ hist' = [hist EXCEPT
                ![t].probe_log = Append(@, <<bt[t].idx, "cached", o, CachedName>>)]
    /\ UNCHANGED <<queue, guiVars>>

\* Mutant: the uncached loop has no cancel check.
UncachedCheckNoCancel(t) ==
    /\ bt[t].pc = "ucheck"
    /\ IF bt[t].i < bt[t].query_count
       THEN bt' = [bt EXCEPT ![t].pc = "uprobe"]
       ELSE AppendResult(t, Aggregate(CurName(t), IpOf(CurName(t)), bt[t].cached_times,
                                      bt[t].uncached_times, bt[t].query_count))
    /\ UNCHANGED <<hist, queue, guiVars>>

\* Mutant: the uncached loop is range(self.query_count - 1).
UncachedCheckOneShort(t) ==
    /\ bt[t].pc = "ucheck"
    /\ IF bt[t].i < bt[t].query_count - 1 /\ bt[t].is_running
       THEN bt' = [bt EXCEPT ![t].pc = "uprobe"]
       ELSE AppendResult(t, Aggregate(CurName(t), IpOf(CurName(t)), bt[t].cached_times,
                                      bt[t].uncached_times, bt[t].query_count))
    /\ UNCHANGED <<hist, queue, guiVars>>

\* Uncached phase: the cancel check before each probe; after the loop the
\* times are aggregated and the result is appended by run().
UncachedCheck(t) ==
    /\ bt[t].pc = "ucheck"
    /\ IF bt[t].i < bt[t].query_count /\ bt[t].is_running
       THEN bt' = [bt EXCEPT ![t].pc = "uprobe"]
       ELSE AppendResult(t, Aggregate(CurName(t), IpOf(CurName(t)), bt[t].cached_times,
                                      bt[t].uncached_times, bt[t].query_count))
    /\ UNCHANGED <<hist, queue, guiVars>>

\* Mutant: a probe that raises ends the loop over the servers.
UncachedProbeFailureAborts(t) ==
    /\ bt[t].pc = "uprobe"
    /\ \E o \in ProbeOutcomes, d \in RandomNames :
         /\ bt' = [bt EXCEPT ![t].pc = IF o = Failed THEN "final" ELSE "ucheck",
                             ![t].i = @ + 1,
                             ![t].uncached_times =
                                 IF o # Failed /\ o > 0 THEN Append(@, o) ELSE @]
         /\ hist' = [hist EXCEPT
                ![t].probe_log = Append(@, <<bt[t].idx, "uncached", o, d>>)]
    /\ UNCHANGED <<queue, guiVars>>

\* Mutant: the uncached phase asks for the name of the cached phase.
UncachedProbeFixedName(t) ==
    /\ bt[t].pc = "uprobe"
    /\ \E o \in ProbeOutcomes, d \in {CachedName} :
         /\ bt' = [bt EXCEPT ![t].pc = "ucheck", ![t].i = @ + 1,
                             ![t].uncached_times =
                                 IF o # Failed /\ o > 0 THEN Append(@, o) ELSE @]
         /\ hist' = [hist EXCEPT
                ![t].probe_log = Append(@, <<bt[t].idx, "uncached", o, d>>)]
    /\ UNCHANGED <<queue, guiVars>>

\* One probe of a name drawn by random.choices: the name is generated, then
\* the blocking call returns or raises.
UncachedProbe(t) ==
    /\ bt[t].pc = "uprobe"
    /\ \E o \in ProbeOutcomes, d \in RandomNames :
         /\ bt' = [bt EXCEPT ![t].pc = "ucheck", ![t].i = @ + 1,
                             ![t].uncached_times =
                                 IF o # Failed /\ o > 0 THEN Append(@, o) ELSE @]
         /\ hist' = [hist EXCEPT
                ![t].probe_log = Append(@, <<bt[t].idx, "uncached", o, d>>)]
    /\ UNCHANGED <<queue, guiVars>>

\* Mutant: the results are emitted whether or not the run was stopped.
FinalCheckIgnoresFlag(t) ==
    /\ bt[t].pc = "final"
    /\ bt' = [bt EXCEPT ![t].pc = "emit"]
    /\ UNCHANGED <<hist, queue, guiVars>>

\* Mutant: if self._is_running and results
FinalCheckNeedsResults(t) ==
    /\ bt[t].pc = "final"
    /\ bt' = [bt EXCEPT ![t].pc = IF bt[t].is_running /\ bt[t].results # <<>>
                                  THEN "emit" ELSE "done"]
    /\ UNCHANGED <<hist, queue, guiVars>>

\* if self._is_running: after the loop
FinalCheck(t) ==
    /\ bt[t].pc = "final"
    /\ bt' = [bt EXCEPT ![t].pc = IF bt[t].is_running THEN "emit" ELSE "done"]
    /\ UNCHANGED <<hist, queue, guiVars>>

\* Mutant: the error signal is emitted after the results as well.
EmitCompleteThenError(t) ==
    /\ bt[t].pc = "emit"
    /\ Emit(t, <<ProgressEvent(t, 100, 0), FinishedEvent(t, bt[t].results),
                 [src |-> t, kind |-> "error", pct |-> 0, msg |-> 0, results |-> <<>>,
                  status |-> ""]>>)
    /\ bt' = [bt EXCEPT ![t].pc = "done"]
    /\ UNCHANGED guiVars

\* Mutant: the results are emitted before the 100 % event.
EmitCompleteResultsFirst(t) ==
    /\ bt[t].pc = "emit"
    /\ Emit(t, <<FinishedEvent(t, bt[t].results), ProgressEvent(t, 100, 0)>>)
    /\ bt' = [bt EXCEPT ![t].pc = "done"]
    /\ UNCHANGED guiVars

\* progress.emit(100, "Complete!"); finished_signal.emit(results); run returns
EmitComplete(t) ==
    /\ bt[t].pc = "emit"
    /\ Emit(t, <<ProgressEvent(t, 100, 0), FinishedEvent(t, bt[t].results)>>)
    /\ bt' = [bt EXCEPT ![t].pc = "done"]
    /\ UNCHANGED guiVars

\* BenchThread.stop: the flag is cleared; the history keeps where run() was.
StopThread(t) ==
    /\ bt' = [bt EXCEPT ![t].is_running = FALSE]
    /\ hist' = IF hist[t].stopped THEN hist
               ELSE [hist EXCEPT ![t].stopped = TRUE, ![t].stop_pc = bt[t].pc,
                                 ![t].stop_idx = bt[t].idx,
                                 ![t].stop_results = bt[t].results,
                                 ![t].stop_issued = Issued(t)]

ThreadStep(t) ==
    \/ RunLoop(t)
    \/ CachedCheck(t)
    \/ CachedProbe(t)
    \/ UncachedCheck(t)
    \/ UncachedProbe(t)
    \/ FinalCheck(t)
    \/ EmitComplete(t)


\* ------------------------------------------------------- SecurityThread
SecThreads == 1..MaxSecRuns

NoSecThread == [pc |-> "none", servers |-> <<>>, is_running |-> FALSE, i |-> 0]
\* SecurityThread.__init__ followed by start()
NewSecThread(servers) ==
    [pc |-> "loop", servers |-> servers, is_running |-> TRUE, i |-> 0]
NoSecHist ==
    [sent |-> <<>>, probe_log |-> <<>>, stopped |-> FALSE, stop_issued |-> 0]

SecIsRunning(t) == st[t].pc \notin {"none", "done"}
SecInProbe(t) == st[t].pc = "probe"
\* Queries whose cancel check has passed: the completed ones and the one in
\* flight.
SecIssued(t) == Len(shist[t].probe_log) + (IF SecInProbe(t) THEN 1 ELSE 0)

SecResultEvent(t, name, status) ==
    [src |-> t, kind |-> "sec_result", pct |-> 0, msg |-> name, results |-> <<>>,
     status |-> status]
SecProgressEvent(t, pct) ==
    [src |-> t, kind |-> "sec_progress", pct |-> pct, msg |-> 0, results |-> <<>>,
     status |-> ""]
SecFinishedEvent(t) ==
    [src |-> t, kind |-> "sec_finished", pct |-> 0, msg |-> 0, results |-> <<>>,
     status |-> ""]

\* What the DNSKEY query gives: the call raises (timeout, transport error,
\* malformed response), or the answer section has or lacks RRSIG and DNSKEY
\* rrsets.
DnssecOutcomes ==
    {[raised |-> TRUE, has_rrsig |-> FALSE, has_dnskey |-> FALSE]}
    \cup {[raised |-> FALSE, has_rrsig |-> r, has_dnskey |-> k] :
              r \in BOOLEAN, k \in BOOLEAN}

\* Mutant: the DNSKEY test comes before the RRSIG test.
ClassifyDnskeyFirst(o) ==
    IF o.raised THEN "error"
    ELSE IF o.has_dnskey THEN "signed"
    ELSE IF o.has_rrsig THEN "valid"
    ELSE "unsigned"

\* status = "valid" if has_rrsig else "signed" if has_dnskey else "unsigned";
\* "error" when the query raised.
Classify(o) ==
    IF o.raised THEN "error"
    ELSE IF o.has_rrsig THEN "valid"
    ELSE IF o.has_dnskey THEN "signed"
    ELSE "unsigned"

\* int((i + 1) / len(self.servers) * 100), in IEEE doubles as ProgressVal.
SecProgressVal(i, total) ==
    (((i + 1) * 100) \div total) - (IF <<i + 1, total>> \in FloatShort THEN 1 ELSE 0)

SecEmit(t, events) ==
    /\ queue' = queue \o events
    /\ shist' = [shist EXCEPT ![t].sent = @ \o events]

\* Mutant: finished_signal is emitted only when the check was not stopped.
SecLoopSilentWhenStopped(t) ==
    /\ st[t].pc = "loop"
    /\ IF st[t].i < Len(st[t].servers) /\ st[t].is_running
       THEN /\ st' = [st EXCEPT ![t].pc = "probe"]
            /\ UNCHANGED <<queue, shist>>
       ELSE /\ st' = [st EXCEPT ![t].pc = "done"]
            /\ IF st[t].is_running THEN SecEmit(t, <<SecFinishedEvent(t)>>)
               ELSE UNCHANGED <<queue, shist>>
    /\ UNCHANGED guiVarsSec

\* for i, (name, ip) in enumerate(...): the cancel check; after the loop (or
\* the break) finished_signal is emitted and run returns.
SecLoop(t) ==
    /\ st[t].pc = "loop"
    /\ IF st[t].i < Len(st[t].servers) /\ st[t].is_running
       THEN /\ st' = [st EXCEPT ![t].pc = "probe"]
            /\ UNCHANGED <<queue, shist>>
       ELSE /\ st' = [st EXCEPT ![t].pc = "done"]
            /\ SecEmit(t, <<SecFinishedEvent(t)>>)
    /\ UNCHANGED guiVarsSec

\* The one DNSKEY query of the server, its classification, and the result
\* and progress signals.
SecProbe(t) ==
    /\ st[t].pc = "probe"
    /\ \E o \in DnssecOutcomes :
         /\ queue' = queue \o <<SecResultEvent(t, st[t].servers[st[t].i + 1], Classify(o)),
                                SecProgressEvent(t, SecProgressVal(st[t].i, Len(st[t].servers)))>>
         /\ shist' = [shist EXCEPT
                ![t].sent = @ \o <<SecResultEvent(t, st[t].servers[st[t].i + 1], Classify(o)),
                                   SecProgressEvent(t, SecProgressVal(st[t].i, Len(st[t].servers)))>>,
                ![t].probe_log = Append(@, <<st[t].i, o>>)]
    /\ st' = [st EXCEPT ![t].pc = "loop", ![t].i = @ + 1]
    /\ UNCHANGED guiVarsSec

\* SecurityThread.stop: the flag is cleared; the history keeps how many
\* queries had been issued.
StopSecThread(t) ==
    /\ st' = [st EXCEPT ![t].is_running = FALSE]
    /\ shist' = IF shist[t].stopped THEN shist
                ELSE [shist EXCEPT ![t].stopped = TRUE,
                                   ![t].stop_issued = SecIssued(t)]

SecThreadStep(t) == SecLoop(t) \/ SecProbe(t)

\* ------------------------------------------------------------ MainWindow
\* The BenchThread objects constructed so far; the next one gets the next id.
Created == {t \in Threads : bt[t].pc # "none"}
NextId == Cardinality(Created) + 1
SecCreated == {t \in SecThreads : st[t].pc # "none"}
NextSecId == Cardinality(SecCreated) + 1

\* servers = {n: ip for n, ip in DNS_SERVERS.items() if checked}
Selected == TableOrder(checked, 1)

\* The GUI thread takes events: in its event loop, inside the
\* QApplication.processEvents() call of run_security, or in the event loop of
\* an open warning box.
Dispatching == gui \in {"idle", "sec_events", "warn_start", "warn_sec"}

\* A click on one checkbox.
ToggleCheckbox ==
    /\ gui = "idle"
    /\ \E s \in Servers :
         checked' = IF s \in checked THEN checked \ {s} ELSE checked \cup {s}
    /\ UNCHANGED <<bt, hist, st, shist, queue, benchWin, secWin, warnings, gui,
                   query_spin>>

\* "Select All"
SelectAll ==
    /\ gui = "idle"
    /\ checked' = Servers
    /\ UNCHANGED <<bt, hist, st, shist, queue, benchWin, secWin, warnings, gui,
                   query_spin>>

\* "Deselect All"
DeselectAll ==
    /\ gui = "idle"
    /\ checked' = {}
    /\ UNCHANGED <<bt, hist, st, shist, queue, benchWin, secWin, warnings, gui,
                   query_spin>>

\* self.bench_thread = BenchThread(servers, self.query_spin.value()), the
\* three connect() calls and start().
LaunchBench(query_count) ==
    /\ bt' = [bt EXCEPT ![NextId] = NewThread(Selected, query_count, TRUE)]
    /\ bench_thread' = NextId

\* Mutant: start_benchmark without the `if not servers` return.
StartBenchmarkUnchecked ==
    /\ gui = "idle"
    /\ NextId \in Threads
    /\ ~(bench_thread # 0 /\ IsRunning(bench_thread))
    /\ start_btn' = FALSE
    /\ results' = <<>>
    /\ \E q \in 1..MaxQueryCount : LaunchBench(q)
    /\ UNCHANGED <<hist, st, shist, queue, checked, progress, sortVars, secWin,
                   warnings, gui, query_spin>>

\* start_benchmark with no box checked: QMessageBox.warning opens.  The box
\* is modal and runs its own event loop until it is closed.
StartRejected ==
    /\ gui = "idle"
    /\ Selected = <<>>
    /\ warnings < MaxWarnings
    /\ warnings' = warnings + 1
    /\ gui' = "warn_start"
    /\ UNCHANGED <<bt, hist, st, shist, queue, checked, benchWin, secWin,
                   query_spin>>

\* The box is closed: QMessageBox.warning returns, and the handler returns.
CloseWarning ==
    /\ gui \in {"warn_start", "warn_sec"}
    /\ gui' = "idle"
    /\ UNCHANGED <<bt, hist, st, shist, queue, checked, benchWin, secWin, warnings,
                   query_spin>>

\* start_benchmark with no run in progress: the button is disabled, the
\* stored results are dropped and the new BenchThread is started.
StartBenchmark ==
    /\ gui = "idle"
    /\ NextId \in Threads
    /\ Selected # <<>>
    /\ ~(bench_thread # 0 /\ IsRunning(bench_thread))
    /\ start_btn' = FALSE
    /\ results' = <<>>
    /\ \E q \in 1..MaxQueryCount : LaunchBench(q)
    /\ UNCHANGED <<hist, st, shist, queue, checked, progress, sortVars, secWin,
                   warnings, gui, query_spin>>

\* start_benchmark while self.bench_thread.isRunning(): the same, then
\* stop() and the GUI thread blocks in wait(2000).
StartBenchmarkStop ==
    /\ gui = "idle"
    /\ NextId \in Threads
    /\ Selected # <<>>
    /\ bench_thread # 0 /\ IsRunning(bench_thread)
    /\ start_btn' = FALSE
    /\ results' = <<>>
    /\ StopThread(bench_thread)
    /\ gui' = "wait_bench"
    /\ UNCHANGED <<st, shist, queue, checked, bench_thread, progress, sortVars,
                   secWin, warnings, query_spin>>

\* wait(2000) returns True: the old thread has finished.
BenchWaitReturn ==
    /\ gui = "wait_bench"
    /\ ~IsRunning(bench_thread)
    /\ \E q \in 1..MaxQueryCount : LaunchBench(q)
    /\ gui' = "idle"
    /\ UNCHANGED <<hist, st, shist, queue, checked, results, start_btn, progress,
                   sortVars, secWin, warnings, query_spin>>

\* wait(2000) returns False after 2000 ms: the old thread is still inside a
\* probe, whose own timeout is 2.0 s.  Every other step of run() is taken to
\* finish within the wait.
BenchWaitTimeout ==
    /\ gui = "wait_bench"
    /\ InProbe(bench_thread)
    /\ \E q \in 1..MaxQueryCount : LaunchBench(q)
    /\ gui' = "idle"
    /\ UNCHANGED <<hist, st, shist, queue, checked, results, start_btn, progress,
                   sortVars, secWin, warnings, query_spin>>

\* update_progress(pct, msg)
UpdateProgress ==
    /\ Dispatching
    /\ queue # <<>>
    /\ Head(queue).kind = "progress"
    /\ progress' = Head(queue).pct
    /\ queue' = Tail(queue)
    /\ UNCHANGED <<bt, hist, st, shist, checked, results, bench_thread, start_btn,
                   sortVars, secWin, warnings, gui, query_spin>>

\* benchmark_done(results): the results are stored, the button is enabled
\* again, and apply_filter() ranks them (the summary label, the tab and the
\* status bar show text only).
BenchmarkDone ==
    /\ Dispatching
    /\ queue # <<>>
    /\ Head(queue).kind = "finished"
    /\ results' = Head(queue).results
    /\ filtered_results' = ApplyFilter(Head(queue).results, sort_mode, Head(queue).results)
    /\ start_btn' = TRUE
    /\ queue' = Tail(queue)
    /\ UNCHANGED <<bt, hist, st, shist, checked, bench_thread, progress, sort_mode,
                   secWin, warnings, gui, query_spin>>

\* Mutant: apply_filter sorts self.results in place (list.sort) and shows it.
ChangeFilterInPlace ==
    /\ gui \in {"idle", "sec_events"}
    /\ \E idx \in 0..4 :
         /\ sort_mode' = idx
         /\ results' = ApplyFilter(results, idx, results)
         /\ filtered_results' = ApplyFilter(results, idx, filtered_results)
    /\ UNCHANGED <<bt, hist, st, shist, queue, checked, bench_thread,
                   start_btn, progress, secWin, warnings, gui, query_spin>>

\* A row of the sort popup is clicked: SimpleCombo.setCurrentIndex(idx) stores
\* the index and emits currentIndexChanged (also for the row already shown),
\* whose slot is apply_filter().
ChangeFilter ==
    /\ gui \in {"idle", "sec_events"}
    /\ \E idx \in 0..4 :
         /\ sort_mode' = idx
         /\ filtered_results' = ApplyFilter(results, idx, filtered_results)
    /\ UNCHANGED <<bt, hist, st, shist, queue, checked, results, bench_thread,
                   start_btn, progress, secWin, warnings, gui, query_spin>>

\* Everything an operation of the query-count field leaves alone.
spinFrame == <<bt, hist, st, shist, queue, checked, benchWin, secWin, warnings, gui>>

\* The user types into the line edit: the text changes, no signal of the
\* line edit that the widget listens to is emitted.
TypeText ==
    /\ gui = "idle"
    /\ \E x \in Typed :
         query_spin' =
           [query_spin EXCEPT !.text = x, !.editing = TRUE, !.finished = <<>>]
    /\ UNCHANGED spinFrame

\* editingFinished (Return, or the focus leaves the line edit):
\* _on_edit_finished takes int(float(text)), self._min when that raises,
\* and calls setValue.
EditFinished ==
    /\ gui = "idle"
    /\ query_spin.editing
    /\ query_spin' = EditFinishedOf(query_spin)
    /\ UNCHANGED spinFrame

\* An arrow is clicked: _step_value(direction) calls
\* setValue(value() + step * direction).  The arrows take no focus, so an
\* open edit is read as it stands.
StepValue ==
    /\ gui = "idle"
    /\ \E direction \in {1, 0 - 1} :
         query_spin' =
           SetValueOf(query_spin,
                      TextOf(ValueOf(query_spin) + SpinStep * direction))
    /\ UNCHANGED spinFrame

\* setValue(v) called by the program, v a number or None.
SetValue ==
    /\ gui = "idle"
    /\ \E x \in Typed :
         query_spin' = SetValueOf(query_spin, x)
    /\ UNCHANGED spinFrame

\* The ends setRange is called with.
RangeEnds == {SpinMin - RangeSlack, SpinMin, SpinMax, SpinMax + RangeSlack}

\* setRange(minimum, maximum) with minimum <= maximum: the bounds are stored
\* and setValue(value()) brings the shown number into them.
SetRange ==
    /\ gui = "idle"
    /\ \E lo \in RangeEnds, hi \in RangeEnds :
         /\ lo <= hi
         /\ LET w == [query_spin EXCEPT !.min = lo, !.max = hi, !.ranged = TRUE]
            IN  query_spin' = SetValueOf(w, TextOf(ValueOf(w)))
    /\ UNCHANGED spinFrame

\* START is clicked with no run in progress.  Under the Fusion style the
\* button takes the focus on the click, so an open edit of the line edit is
\* finished (EditFinished) before clicked is emitted; start_benchmark then
\* hands self.query_spin.value() to the new BenchThread.
StartBenchmarkSpin ==
    /\ gui = "idle"
    /\ ~query_spin.editing
    /\ NextId \in Threads
    /\ Selected # <<>>
    /\ ~(bench_thread # 0 /\ IsRunning(bench_thread))
    /\ start_btn' = FALSE
    /\ results' = <<>>
    /\ LaunchBench(ValueOf(query_spin))
    /\ UNCHANGED <<hist, st, shist, queue, checked, progress, sortVars, secWin,
                   warnings, gui, query_spin>>

\* run_security with no box checked: the same warning box.
SecurityRejected ==
    /\ gui = "idle"
    /\ Selected = <<>>
    /\ warnings < MaxWarnings
    /\ warnings' = warnings + 1
    /\ gui' = "warn_sec"
    /\ UNCHANGED <<bt, hist, st, shist, queue, checked, benchWin, secWin,
                   query_spin>>

\* run_security up to QApplication.processEvents(): the button is disabled,
\* the bar reset and the cards removed.  The events processEvents() handles
\* are the queued signals.
RunSecurity ==
    /\ gui = "idle"
    /\ NextSecId \in SecThreads
    /\ Selected # <<>>
    /\ sec_btn' = FALSE
    /\ sec_prog' = 0
    /\ sec_cards' = <<>>
    /\ gui' = "sec_events"
    /\ UNCHANGED <<bt, hist, st, shist, queue, checked, benchWin, sec_thread, warnings,
                   query_spin>>

\* self.sec_thread = SecurityThread(servers), the connect() calls and start()
LaunchSec ==
    /\ st' = [st EXCEPT ![NextSecId] = NewSecThread(Selected)]
    /\ sec_thread' = NextSecId

\* processEvents() has returned and no check is in progress.
RunSecurityLaunch ==
    /\ gui = "sec_events"
    /\ queue = <<>>
    /\ ~(sec_thread # 0 /\ SecIsRunning(sec_thread))
    /\ LaunchSec
    /\ gui' = "idle"
    /\ UNCHANGED <<bt, hist, shist, queue, checked, benchWin, sec_btn, sec_prog,
                   sec_cards, warnings, query_spin>>

\* processEvents() has returned and self.sec_thread.isRunning(): stop() and
\* the GUI thread blocks in wait(2000).
RunSecurityStop ==
    /\ gui = "sec_events"
    /\ queue = <<>>
    /\ sec_thread # 0 /\ SecIsRunning(sec_thread)
    /\ StopSecThread(sec_thread)
    /\ gui' = "wait_sec"
    /\ UNCHANGED <<bt, hist, queue, checked, benchWin, secWin, warnings,
                   query_spin>>

\* wait(2000) returns True
SecWaitReturn ==
    /\ gui = "wait_sec"
    /\ ~SecIsRunning(sec_thread)
    /\ LaunchSec
    /\ gui' = "idle"
    /\ UNCHANGED <<bt, hist, shist, queue, checked, benchWin, sec_btn, sec_prog,
                   sec_cards, warnings, query_spin>>

\* wait(2000) returns False: the old thread is still inside its query.
SecWaitTimeout ==
    /\ gui = "wait_sec"
    /\ SecInProbe(sec_thread)
    /\ LaunchSec
    /\ gui' = "idle"
    /\ UNCHANGED <<bt, hist, shist, queue, checked, benchWin, sec_btn, sec_prog,
                   sec_cards, warnings, query_spin>>

\* add_security_result(name, status)
AddSecurityResult ==
    /\ Dispatching
    /\ queue # <<>>
    /\ Head(queue).kind = "sec_result"
    /\ sec_cards' = Append(sec_cards, <<Head(queue).msg, Head(queue).status>>)
    /\ queue' = Tail(queue)
    /\ UNCHANGED <<bt, hist, st, shist, checked, benchWin, sec_thread, sec_btn,
                   sec_prog, warnings, gui, query_spin>>

\* self.sec_prog.setValue(pct)
SecProgress ==
    /\ Dispatching
    /\ queue # <<>>
    /\ Head(queue).kind = "sec_progress"
    /\ sec_prog' = Head(queue).pct
    /\ queue' = Tail(queue)
    /\ UNCHANGED <<bt, hist, st, shist, checked, benchWin, sec_thread, sec_btn,
                   sec_cards, warnings, gui, query_spin>>

\* security_done()
SecurityDone ==
    /\ Dispatching
    /\ queue # <<>>
    /\ Head(queue).kind = "sec_finished"
    /\ sec_btn' = TRUE
    /\ queue' = Tail(queue)
    /\ UNCHANGED <<bt, hist, st, shist, checked, benchWin, sec_thread, sec_prog,
                   sec_cards, warnings, gui, query_spin>>

\* MainWindow.__init__: every box checked, no thread, no results.
Init ==
    /\ bt = [t \in Threads |-> NoThread]
    /\ hist = [t \in Threads |-> NoHist]
    /\ st = [t \in SecThreads |-> NoSecThread]
    /\ shist = [t \in SecThreads |-> NoSecHist]
    /\ queue = <<>>
    /\ checked = Servers
    /\ results = <<>>
    /\ bench_thread = 0
    /\ start_btn = TRUE
    /\ progress = 0
    /\ filtered_results = <<>>
    /\ sort_mode = 0
    /\ sec_thread = 0
    /\ sec_btn = TRUE
    /\ sec_prog = 0
    /\ sec_cards = <<>>
    /\ warnings = 0
    /\ gui = "idle"
    /\ query_spin = NewSpin

\* The window with its benchmark side.
Next ==
    \/ ToggleCheckbox
    \/ SelectAll
    \/ DeselectAll
    \/ StartRejected
    \/ CloseWarning
    \/ StartBenchmark
    \/ StartBenchmarkStop
    \/ BenchWaitReturn
    \/ BenchWaitTimeout
    \/ UpdateProgress
    \/ BenchmarkDone
    \/ \E t \in Threads : ThreadStep(t)

Spec == Init /\ [][Next]_vars

\* The security side of the window.
NextSec ==
    \/ SecurityRejected
    \/ RunSecurity
    \/ RunSecurityLaunch
    \/ RunSecurityStop
    \/ SecWaitReturn
    \/ SecWaitTimeout
    \/ AddSecurityResult
    \/ SecProgress
    \/ SecurityDone
    \/ \E t \in SecThreads : SecThreadStep(t)

\* The security side alone.
SpecSecWindow ==
    Init /\ [][ToggleCheckbox \/ SelectAll \/ DeselectAll \/ CloseWarning \/ NextSec]_vars

\* The whole window, with WindowRuns clicks on each of the two buttons that
\* start a thread.
NextWindow ==
    \/ ToggleCheckbox
    \/ SelectAll
    \/ DeselectAll
    \/ StartRejected
    \/ CloseWarning
    \/ (NextId <= WindowRuns /\ StartBenchmark)
    \/ UpdateProgress
    \/ BenchmarkDone
    \/ \E t \in Threads : ThreadStep(t)
    \/ SecurityRejected
    \/ (NextSecId <= WindowRuns /\ RunSecurity)
    \/ RunSecurityLaunch
    \/ AddSecurityResult
    \/ SecProgress
    \/ SecurityDone
    \/ \E t \in SecThreads : SecThreadStep(t)

SpecWindow == Init /\ [][NextWindow]_vars

\* ------------------------------------------------- the engine on its own
\* One BenchThread constructed with any target list and query count, started,
\* and stopped by its owner at any moment.
EngineInputs ==
    {<<n, q, b>> : n \in 0..SmallTargets, q \in 0..MaxQueryCount, b \in BOOLEAN}
    \cup {<<n, 0, TRUE>> : n \in 0..BigTargets}

InitEngine ==
    /\ \E in \in EngineInputs :
         bt = [t \in Threads |->
                 IF t = 1 THEN NewThread([k \in 1..in[1] |-> k], in[2], in[3])
                 ELSE NoThread]
    /\ hist = [t \in Threads |-> NoHist]
    /\ st = [t \in SecThreads |-> NoSecThread]
    /\ shist = [t \in SecThreads |-> NoSecHist]
    /\ queue = <<>>
    /\ checked = Servers
    /\ results = <<>>
    /\ bench_thread = 1
    /\ start_btn = FALSE
    /\ progress = 0
    /\ filtered_results = <<>>
    /\ sort_mode = 0
    /\ sec_thread = 0
    /\ sec_btn = TRUE
    /\ sec_prog = 0
    /\ sec_cards = <<>>
    /\ warnings = 0
    /\ gui = "idle"
    /\ query_spin = NewSpin

\* BenchThread.stop(), called by the owner of the thread.
Stop ==
    /\ IsRunning(1)
    /\ ~hist[1].stopped
    /\ StopThread(1)
    /\ UNCHANGED <<queue, guiVars>>

NextEngine == ThreadStep(1) \/ Stop

SpecEngine == InitEngine /\ [][NextEngine]_vars

\* ------------------------------------------------- the tester on its own
\* One BenchThread with a single target: run() is one test_single_server
\* campaign, with any query count and any moment of stop().
TesterInputs == {<<q, b>> : q \in 0..TesterQueries, b \in BOOLEAN}

InitTester ==
    /\ \E in \in TesterInputs :
         bt = [t \in Threads |->
                 IF t = 1 THEN NewThread(<<1>>, in[1], in[2]) ELSE NoThread]
    /\ hist = [t \in Threads |-> NoHist]
    /\ st = [t \in SecThreads |-> NoSecThread]
    /\ shist = [t \in SecThreads |-> NoSecHist]
    /\ queue = <<>>
    /\ checked = Servers
    /\ results = <<>>
    /\ bench_thread = 1
    /\ start_btn = FALSE
    /\ progress = 0
    /\ filtered_results = <<>>
    /\ sort_mode = 0
    /\ sec_thread = 0
    /\ sec_btn = TRUE
    /\ sec_prog = 0
    /\ sec_cards = <<>>
    /\ warnings = 0
    /\ gui = "idle"
    /\ query_spin = NewSpin

SpecTester == InitTester /\ [][NextEngine]_vars

\* ---------------------------------------- the security engine on its own
\* One SecurityThread constructed with any target list, started, and stopped
\* by its owner at any moment.
InitSecEngine ==
    /\ bt = [t \in Threads |-> NoThread]
    /\ hist = [t \in Threads |-> NoHist]
    /\ \E n \in 0..SecTargets :
         st = [t \in SecThreads |->
                 IF t = 1 THEN NewSecThread([k \in 1..n |-> k]) ELSE NoSecThread]
    /\ shist = [t \in SecThreads |-> NoSecHist]
    /\ queue = <<>>
    /\ checked = Servers
    /\ results = <<>>
    /\ bench_thread = 0
    /\ start_btn = TRUE
    /\ progress = 0
    /\ filtered_results = <<>>
    /\ sort_mode = 0
    /\ sec_thread = 1
    /\ sec_btn = FALSE
    /\ sec_prog = 0
    /\ sec_cards = <<>>
    /\ warnings = 0
    /\ gui = "idle"
    /\ query_spin = NewSpin

\* SecurityThread.stop(), called by the owner of the thread.
SecStop ==
    /\ SecIsRunning(1)
    /\ ~shist[1].stopped
    /\ StopSecThread(1)
    /\ UNCHANGED <<queue, guiVarsSec>>

NextSecEngine == SecThreadStep(1) \/ SecStop

SpecSecEngine == InitSecEngine /\ [][NextSecEngine]_vars

\* ------------------------------------------------ one worker on its own
\* One worker thread of either kind, constructed with any input, started, and
\* stopped by its owner at any moment.
InitWorker == InitEngine \/ InitSecEngine

NextWorker == NextEngine \/ NextSecEngine

SpecWorker == InitWorker /\ [][NextWorker]_vars

\* The worker's thread is scheduled, and every DNS call returns or raises
\* within its timeout: a step of run() that can be taken is taken.
SpecWorkerFair ==
    SpecWorker /\ WF_vars(ThreadStep(1)) /\ WF_vars(SecThreadStep(1))

\* ------------------------------------------------------- the results tab
\* The times a phase of RankQueries probes collected from a server that
\* answered its first m probes, the k-th after k ms.
RankTimes == {[k \in 1..m |-> k] : m \in 0..RankQueries}
\* The result list of a finished run over n servers: one ServerResult per
\* server, aggregated from the times of its two phases.
RankInputs == UNION {[1..n -> RankTimes \X RankTimes] : n \in 0..RankTargets}
ResultList(in) ==
    [k \in DOMAIN in |-> Aggregate(k, IpOf(k), in[k][1], in[k][2], RankQueries)]

\* The window at the end of its first run: the BenchThread has returned and
\* its finished signal is queued.  (The history of that run is not kept.)
InitRanking ==
    /\ \E in \in RankInputs :
         /\ bt = [t \in Threads |->
                   IF t = 1
                   THEN [NewThread([k \in DOMAIN in |-> k], RankQueries, TRUE)
                            EXCEPT !.pc = "done", !.idx = Len(in),
                                   !.results = ResultList(in)]
                   ELSE NoThread]
         /\ queue = <<FinishedEvent(1, ResultList(in))>>
    /\ hist = [t \in Threads |-> NoHist]
    /\ st = [t \in SecThreads |-> NoSecThread]
    /\ shist = [t \in SecThreads |-> NoSecHist]
    /\ checked = Servers
    /\ results = <<>>
    /\ bench_thread = 1
    /\ start_btn = FALSE
    /\ progress = 100
    /\ filtered_results = <<>>
    /\ sort_mode = 0
    /\ sec_thread = 0
    /\ sec_btn = TRUE
    /\ sec_prog = 0
    /\ sec_cards = <<>>
    /\ warnings = 0
    /\ gui = "idle"
    /\ query_spin = NewSpin

\* The results arrive, the sort box is used, and START BENCHMARK is clicked
\* again; the steps of the run it starts are those of Spec.
NextRanking ==
    \/ BenchmarkDone
    \/ ChangeFilter
    \/ StartBenchmark

SpecRanking == InitRanking /\ [][NextRanking]_vars

\* The query-count field and the START button of a window with every box
\* checked; the started run takes no step here.
InitSpin == Init

NextSpin ==
    \/ TypeText
    \/ EditFinished
    \/ StepValue
    \/ SetValue
    \/ SetRange
    \/ StartBenchmarkSpin

SpecSpin == InitSpin /\ [][NextSpin]_vars

\* ================================================================ claims
IsPrefix(s, r) == Len(s) <= Len(r) /\ \A k \in 1..Len(s) : s[k] = r[k]

Done(t) == bt[t].pc = "done"
Sent(t) == hist[t].sent
IsProgress(e) == e.kind = "progress"
IsTerminal(e) == e.kind \in {"finished", "cancelled", "error"}
\* The progress signals of run t, and the "Testing {name}..." ones among them.
ProgressOf(t) == SelectSeq(Sent(t), IsProgress)
IsTesting(e) == e.kind = "progress" /\ e.msg # 0
TestingOf(t) == SelectSeq(Sent(t), IsTesting)
TerminalAt(t) == {k \in DOMAIN Sent(t) : IsTerminal(Sent(t)[k])}

\* Where run() is inside its for loop, and inside one server's campaign.
Campaign == {"ccheck", "cprobe", "ucheck", "uprobe"}
Iterating == {"loop"} \cup Campaign
\* stop() came while run() was iterating / before the final check was passed.
CancelledIterating(t) == hist[t].stopped /\ hist[t].stop_pc \in Iterating
CancelledEarly(t) == hist[t].stopped /\ hist[t].stop_pc \in Iterating \cup {"final"}

C2_OldSettledBeforeNewProbes ==
    /\ Cardinality({t \in Threads : IsRunning(t)}) <= 1
    /\ \A old, new \in Threads :
           (old < new /\ Issued(new) > 0) => Done(old)

\* C3: once stop() has cleared the flag no further probe passes its check (the
\* one in flight may complete), no server after the current one is probed or
\* gets a result, and the current server's result is the aggregate of the
\* times collected so far, not the error fallback.
C3_NoProbeAfterStop ==
    \A t \in Threads :
        hist[t].stopped =>
            /\ Issued(t) = hist[t].stop_issued
            /\ \A k \in DOMAIN hist[t].probe_log :
                   hist[t].probe_log[k][1] <= hist[t].stop_idx
            /\ Len(bt[t].results) <= hist[t].stop_idx + 1
            /\ (/\ hist[t].stop_pc \in Campaign
                /\ bt[t].count_is_int
                /\ Len(bt[t].results) = hist[t].stop_idx + 1) =>
                   bt[t].results[hist[t].stop_idx + 1] =
                       Aggregate(bt[t].servers[hist[t].stop_idx + 1],
                                 IpOf(bt[t].servers[hist[t].stop_idx + 1]),
                                 bt[t].cached_times, bt[t].uncached_times,
                                 bt[t].query_count)

C3_Witness ==
    \E t \in Threads :
        /\ Done(t)
        /\ hist[t].stopped /\ hist[t].stop_pc = "cprobe"
        /\ hist[t].stop_idx + 1 < Total(t)
        /\ Len(bt[t].results) = hist[t].stop_idx + 1
        /\ bt[t].results[hist[t].stop_idx + 1].successful = 1

\* The cancellation lands before the campaign of the last target has started.
LandsMidRun(t) ==
    /\ hist[t].stopped
    /\ Total(t) > 0
    /\ \/ hist[t].stop_idx < Total(t) - 1
       \/ hist[t].stop_idx = Total(t) - 1 /\ hist[t].stop_pc = "loop"

\* C4: a cancellation that lands mid-run leaves fewer results than targets,
\* and the results that existed when it landed are unchanged.
C4_CancelMidRunShorter ==
    \A t \in Threads :
        LandsMidRun(t) =>
            /\ Len(bt[t].results) < Total(t)
            /\ IsPrefix(hist[t].stop_results, bt[t].results)

C4_Witness ==
    \E t \in Threads :
        /\ Done(t) /\ LandsMidRun(t)
        /\ hist[t].stop_results # <<>>
        /\ Len(bt[t].results) > Len(hist[t].stop_results)

Pct(t, k) == ProgressOf(t)[k].pct
InRange(t) == \A k \in DOMAIN ProgressOf(t) : Pct(t, k) >= 0 /\ Pct(t, k) <= 100
StrictlyIncreasing(t) ==
    \A k \in DOMAIN ProgressOf(t) : k > 1 => Pct(t, k - 1) < Pct(t, k)
NonDecreasing(t) ==
    \A k \in DOMAIN ProgressOf(t) : k > 1 => Pct(t, k - 1) <= Pct(t, k)

\* C6 as claimed: the progress values of a run are strictly increasing and lie
\* in [0,100], whatever the number of targets and the moment of cancellation.
C6_StrictlyIncreasing ==
    \A t \in Threads : InRange(t) /\ StrictlyIncreasing(t)

\* C6 amended: the progress values of a run lie in [0,100] and never decrease,
\* whatever the number of targets and the moment of cancellation; they are
\* strictly increasing when the run has fewer than 100 targets.
C6_NonDecreasing ==
    \A t \in Threads :
        /\ InRange(t)
        /\ NonDecreasing(t)
        /\ Total(t) < 100 => StrictlyIncreasing(t)

C6_Witness ==
    \E t \in Threads :
        /\ Done(t)
        /\ Total(t) >= 100
        /\ Len(ProgressOf(t)) = Total(t) + 1

C8_OnePerTargetInOrder ==
    \A t \in Threads :
        /\ \A k \in DOMAIN Sent(t) :
               Sent(t)[k].kind = "finished" =>
                   /\ Len(Sent(t)[k].results) = Total(t)
                   /\ \A j \in 1..Total(t) :
                          /\ Sent(t)[k].results[j].name = bt[t].servers[j]
                          /\ Sent(t)[k].results[j].ip = IpOf(bt[t].servers[j])
                          /\ ~bt[t].count_is_int =>
                                 Sent(t)[k].results[j] =
                                     DefaultResult(bt[t].servers[j], IpOf(bt[t].servers[j]))
        /\ \A j \in DOMAIN TestingOf(t) : TestingOf(t)[j].msg = bt[t].servers[j]
        /\ (Done(t) /\ ~hist[t].stopped) =>
               \E k \in DOMAIN Sent(t) : Sent(t)[k].kind = "finished"

C8_Witness ==
    \E t \in Threads :
        /\ Done(t) /\ ~hist[t].stopped
        /\ Total(t) >= 2
        /\ bt[t].query_count > 0
        /\ bt[t].count_is_int
        /\ Sent(t)[Len(Sent(t))].results[2].successful > 0

RejectKeeps ==
    warnings' # warnings =>
        /\ Selected = <<>>
        /\ UNCHANGED <<bt, hist, st, shist, queue, checked, results,
                       bench_thread, start_btn, progress, sortVars, secWin,
                   query_spin>>

\* While the warning box is open no thread is constructed and the thread
\* references stay as they are.
BoxKeeps ==
    gui \in {"warn_start", "warn_sec"} =>
        /\ Created' = Created
        /\ SecCreated' = SecCreated
        /\ bench_thread' = bench_thread
        /\ sec_thread' = sec_thread

\* C10: start_benchmark and run_security never construct a thread from an
\* empty selection; the step that rejects a request finds no box checked and
\* changes nothing but the warning box it opens; and while the box is open no
\* thread is constructed and the thread references stay as they are.
C10_EmptySelectionRejected ==
    /\ [](\A t \in Threads : bt[t].pc # "none" => bt[t].servers # <<>>)
    /\ [](\A t \in SecThreads : st[t].pc # "none" => st[t].servers # <<>>)
    /\ [][RejectKeeps]_vars
    /\ [][BoxKeeps]_vars

\* START BENCHMARK is rejected after a finished run: its thread and its
\* results are still in place behind the box.
C10_Witness ==
    /\ gui = "warn_start"
    /\ Selected = <<>>
    /\ bench_thread # 0
    /\ results # <<>>
    /\ start_btn

\* ------------------------------------------------ ServerResult contents
\* The ServerResult of target number k of run t (k counts from 1).
ResultOf(t, k) == bt[t].results[k]
\* The probes of run t that were made for target k in one phase, in order,
\* and the elapsed times of the answered ones.
ProbesFor(t, k, phase) ==
    SelectSeq(hist[t].probe_log, LAMBDA e : e[1] = k - 1 /\ e[2] = phase)
Answered(probes) == SelectSeq(probes, LAMBDA e : e[3] # Failed)
TimesOf(probes) == [j \in DOMAIN Answered(probes) |-> Answered(probes)[j][3]]
CachedTimes(t, k) == TimesOf(ProbesFor(t, k, "cached"))
UncachedTimes(t, k) == TimesOf(ProbesFor(t, k, "uncached"))
ProbesIssued(t, k) ==
    Len(ProbesFor(t, k, "cached")) + Len(ProbesFor(t, k, "uncached"))

\* C11: every ServerResult, whatever the probe outcomes and the moment of
\* cancellation, and the fallback result too, has a reliability in [0,100],
\* no more successes than queries, and reliability = successful /
\* total_queries * 100, or 0 when total_queries is 0.
C11_ReliabilityInRange ==
    \A t \in Threads : \A k \in DOMAIN bt[t].results :
        LET r == ResultOf(t, k)
        IN  /\ RatLeq(Zero, r.reliability)
            /\ RatLeq(r.reliability, RatOfInt(100))
            /\ r.successful <= r.total_queries
            /\ r.reliability = IF r.total_queries = 0 THEN Zero
                               ELSE Rat(r.successful * 100, r.total_queries)

\* A campaign cut short by stop() after one answered probe out of four.
C11_Witness ==
    \E t \in Threads :
        /\ Done(t) /\ hist[t].stopped
        /\ Len(bt[t].results) = 1
        /\ ResultOf(t, 1).successful = 1
        /\ ResultOf(t, 1).total_queries = 4
        /\ ResultOf(t, 1).reliability = RatOfInt(25)

\* C12: in every ServerResult, also one built after stop() cut the campaign
\* short, total_queries is the number of probes issued to that server and the
\* reliability is 100 * successful / (probes issued).
C12_ReliabilityOverIssued ==
    \A t \in Threads : \A k \in DOMAIN bt[t].results :
        LET r == ResultOf(t, k)
        IN  /\ r.total_queries = ProbesIssued(t, k)
            /\ ProbesIssued(t, k) > 0 =>
                   r.reliability = Rat(100 * r.successful, ProbesIssued(t, k))

\* stop() did not come before the campaign of target k had ended.
Uncancelled(t, k) == ~hist[t].stopped \/ k <= Len(hist[t].stop_results)
\* The probes of target k: every cached one before every uncached one.
CachedFirst(t, k) ==
    \A a, b \in DOMAIN hist[t].probe_log :
        (/\ a < b
         /\ hist[t].probe_log[a][1] = k - 1
         /\ hist[t].probe_log[b][1] = k - 1
         /\ hist[t].probe_log[b][2] = "cached") =>
            hist[t].probe_log[a][2] = "cached"

\* C13: a server whose two phases ran to their end without cancellation has
\* total_queries = 2 * query_count, and exactly that many probes were issued
\* to it: query_count cached ones, then query_count uncached ones.
C13_TwiceQueryCount ==
    \A t \in Threads : \A k \in DOMAIN bt[t].results :
        (bt[t].count_is_int /\ Uncancelled(t, k)) =>
            /\ ResultOf(t, k).total_queries = 2 * bt[t].query_count
            /\ Len(ProbesFor(t, k, "cached")) = bt[t].query_count
            /\ Len(ProbesFor(t, k, "uncached")) = bt[t].query_count
            /\ CachedFirst(t, k)

C13_Witness ==
    \E t \in Threads :
        /\ Done(t) /\ ~hist[t].stopped
        /\ bt[t].query_count = 2
        /\ Len(bt[t].results) = 1
        /\ ResultOf(t, 1).total_queries = 4
        /\ ProbesIssued(t, 1) = 4
        /\ ResultOf(t, 1).successful = 3

Positive(x) == RatLess(Zero, x)
\* (x + y) / 2
HalfSum(x, y) == Rat(x[1] * y[2] + y[1] * x[2], 2 * x[2] * y[2])

\* C14: in every ServerResult overall_avg is the half sum of cached_avg and
\* uncached_avg when both are positive, the non-zero one when exactly one of
\* them is 0, and 0 when both are 0.
C14_OverallFromPhases ==
    \A t \in Threads : \A k \in DOMAIN bt[t].results :
        LET r == ResultOf(t, k)
            c == r.cached_avg
            u == r.uncached_avg
        IN  /\ (Positive(c) /\ Positive(u)) => r.overall_avg = HalfSum(c, u)
            /\ (c = Zero /\ u # Zero) => r.overall_avg = u
            /\ (c # Zero /\ u = Zero) => r.overall_avg = c
            /\ (c = Zero /\ u = Zero) => r.overall_avg = Zero

\* Both phases have data and their averages differ.
C14_Witness ==
    \E t \in Threads :
        /\ Len(bt[t].results) = 1
        /\ ResultOf(t, 1).cached_avg = RatOfInt(1)
        /\ ResultOf(t, 1).uncached_avg = RatOfInt(2)
        /\ ResultOf(t, 1).overall_avg = Rat(3, 2)

\* C15: in every ServerResult with a success, overall_avg lies between
\* min_time and max_time, whichever phases the successful samples are in.
C15_OverallBetweenMinMax ==
    \A t \in Threads : \A k \in DOMAIN bt[t].results :
        LET r == ResultOf(t, k)
        IN  r.successful > 0 =>
                /\ RatLeq(RatOfInt(r.min_time), r.overall_avg)
                /\ RatLeq(r.overall_avg, RatOfInt(r.max_time))

\* Samples in one phase only, and not all equal.
C15_Witness ==
    \E t \in Threads :
        /\ Len(bt[t].results) = 1
        /\ CachedTimes(t, 1) = <<>>
        /\ UncachedTimes(t, 1) = <<1, 2>>
        /\ ResultOf(t, 1).min_time = 1
        /\ ResultOf(t, 1).max_time = 2
        /\ ResultOf(t, 1).overall_avg = Rat(3, 2)

\* The mean of a list of times, 0 for the empty list.
MeanOrZero(times) ==
    IF times = <<>> THEN Zero ELSE Rat(SumSeq(times), Len(times))
\* The elapsed times of the answered probes of target k, both phases.
TimeSet(t, k) ==
    {CachedTimes(t, k)[j] : j \in DOMAIN CachedTimes(t, k)}
    \cup {UncachedTimes(t, k)[j] : j \in DOMAIN UncachedTimes(t, k)}

\* C16: cached_avg and uncached_avg are the means of the times of the
\* answered probes of their phase, and 0 exactly when the phase had no
\* answer; min_time and max_time are the least and the greatest time over
\* both phases, and 0 exactly when successful is 0.
C16_ZeroMeansNoData ==
    \A t \in Threads : \A k \in DOMAIN bt[t].results :
        LET r == ResultOf(t, k)
        IN  /\ r.cached_avg = MeanOrZero(CachedTimes(t, k))
            /\ r.uncached_avg = MeanOrZero(UncachedTimes(t, k))
            /\ r.cached_avg = Zero <=> CachedTimes(t, k) = <<>>
            /\ r.uncached_avg = Zero <=> UncachedTimes(t, k) = <<>>
            /\ r.successful = Len(CachedTimes(t, k)) + Len(UncachedTimes(t, k))
            /\ r.successful = 0 <=> TimeSet(t, k) = {}
            /\ r.min_time = 0 <=> r.successful = 0
            /\ r.max_time = 0 <=> r.successful = 0
            /\ TimeSet(t, k) # {} =>
                   /\ r.min_time \in TimeSet(t, k)
                   /\ r.max_time \in TimeSet(t, k)
                   /\ \A x \in TimeSet(t, k) : r.min_time <= x /\ x <= r.max_time

\* A failed cached phase beside an uncached phase with two different times.
C16_Witness ==
    \E t \in Threads :
        /\ Done(t)
        /\ Len(bt[t].results) = 1
        /\ Len(ProbesFor(t, 1, "cached")) = 2
        /\ CachedTimes(t, 1) = <<>>
        /\ UncachedTimes(t, 1) = <<2, 1>>
        /\ ResultOf(t, 1).cached_avg = Zero
        /\ ResultOf(t, 1).min_time = 1

\* Probes were issued to target k and every one of them failed.
AllFailed(t, k) ==
    /\ ProbesIssued(t, k) > 0
    /\ CachedTimes(t, k) = <<>>
    /\ UncachedTimes(t, k) = <<>>

\* C17: a server whose probes all fail still gets a ServerResult, with its
\* name and address, reliability 0 and the three averages 0; no error signal
\* is emitted; and a run that is not stopped goes on: it probes every server
\* and ends with one result per server.
C17_FailuresAreData ==
    \A t \in Threads :
        /\ \A k \in DOMAIN bt[t].results :
               AllFailed(t, k) =>
                   ResultOf(t, k) =
                       [DefaultResult(bt[t].servers[k], IpOf(bt[t].servers[k]))
                            EXCEPT !.total_queries = 2 * bt[t].query_count]
        /\ \A j \in DOMAIN Sent(t) : Sent(t)[j].kind # "error"
        /\ (Done(t) /\ ~hist[t].stopped /\ bt[t].count_is_int) =>
               /\ Len(bt[t].results) = Total(t)
               /\ \A k \in 1..Total(t) : ProbesIssued(t, k) = 2 * bt[t].query_count

\* Every probe of the first server failed, and the second was answered.
C17_Witness ==
    \E t \in Threads :
        /\ Done(t) /\ ~hist[t].stopped
        /\ Total(t) = 2
        /\ AllFailed(t, 1)
        /\ ProbesIssued(t, 1) = 2
        /\ ResultOf(t, 1).reliability = Zero
        /\ ResultOf(t, 2).successful = 2
        /\ Sent(t)[Len(Sent(t))].kind = "finished"

\* C18: with query_count = 0 no probe is issued, and every ServerResult has
\* its name and address, total_queries 0 and every metric 0.
C18_ZeroQueries ==
    \A t \in Threads :
        (bt[t].pc # "none" /\ bt[t].count_is_int /\ bt[t].query_count = 0) =>
            /\ Issued(t) = 0
            /\ \A k \in DOMAIN bt[t].results :
                   LET r == ResultOf(t, k)
                   IN  /\ r.name = bt[t].servers[k]
                       /\ r.ip = IpOf(bt[t].servers[k])
                       /\ r.total_queries = 0 /\ r.successful = 0
                       /\ r.cached_avg = Zero /\ r.uncached_avg = Zero
                       /\ r.overall_avg = Zero /\ r.reliability = Zero
                       /\ r.min_time = 0 /\ r.max_time = 0

C18_Witness ==
    \E t \in Threads :
        /\ Done(t) /\ ~hist[t].stopped
        /\ bt[t].count_is_int /\ bt[t].query_count = 0
        /\ Len(bt[t].results) = 1
        /\ Sent(t)[Len(Sent(t))].results = bt[t].results

\* Every probe of run t was answered, each after the same time e.
AllAnsweredIn(t, e) ==
    /\ hist[t].probe_log # <<>>
    /\ \A j \in DOMAIN hist[t].probe_log : hist[t].probe_log[j][3] = e

\* C19: in a run that is not cancelled and whose probes are all answered
\* after the same time e > 0, every server has a ServerResult with
\* cached_avg = uncached_avg = overall_avg = e, reliability 100, and
\* total_queries = successful = 2 * query_count.
C19_UniformSuccess ==
    \A t \in Threads : \A e \in Elapsed :
        (Done(t) /\ ~hist[t].stopped /\ AllAnsweredIn(t, e)) =>
            /\ Len(bt[t].results) = Total(t)
            /\ \A k \in DOMAIN bt[t].results :
                   LET r == ResultOf(t, k)
                   IN  /\ r.cached_avg = RatOfInt(e)
                       /\ r.uncached_avg = RatOfInt(e)
                       /\ r.overall_avg = RatOfInt(e)
                       /\ r.reliability = RatOfInt(100)
                       /\ r.total_queries = 2 * bt[t].query_count
                       /\ r.successful = 2 * bt[t].query_count

\* Two servers, every probe answered after 2 ms.
C19_Witness ==
    \E t \in Threads :
        /\ Done(t) /\ ~hist[t].stopped
        /\ AllAnsweredIn(t, 2)
        /\ Total(t) = 2
        /\ Len(hist[t].probe_log) = 4
        /\ ResultOf(t, 2).overall_avg = RatOfInt(2)

\* ------------------------------------------------------ security statuses
IsSecResult(e) == e.kind = "sec_result"
\* The (name, status) signals of SecurityThread t, in order.
SecResultsOf(t) == SelectSeq(shist[t].sent, IsSecResult)
\* The status the DNSSEC rules give an outcome of the DNSKEY query.
StatusFor(o) ==
    CASE o.raised -> "error"
      [] ~o.raised /\ o.has_rrsig -> "valid"
      [] ~o.raised /\ ~o.has_rrsig /\ o.has_dnskey -> "signed"
      [] OTHER -> "unsigned"

\* C20: the status a SecurityThread reports for a server is a function of the
\* outcome of its one query: an RRSIG in the answer gives "valid" (with or
\* without a DNSKEY), else a DNSKEY gives "signed", else an answer gives
\* "unsigned", and a query that raises gives "error"; equal outcomes give
\* equal statuses, in every check and every thread.
C20_StatusFromOutcome ==
    /\ \A t \in SecThreads :
           /\ Len(SecResultsOf(t)) = Len(shist[t].probe_log)
           /\ \A j \in DOMAIN shist[t].probe_log :
                  /\ SecResultsOf(t)[j].status = StatusFor(shist[t].probe_log[j][2])
                  /\ SecResultsOf(t)[j].msg = st[t].servers[shist[t].probe_log[j][1] + 1]
    /\ \A t1, t2 \in SecThreads :
           \A j1 \in DOMAIN shist[t1].probe_log, j2 \in DOMAIN shist[t2].probe_log :
               shist[t1].probe_log[j1][2] = shist[t2].probe_log[j2][2] =>
                   SecResultsOf(t1)[j1].status = SecResultsOf(t2)[j2].status

\* Two checks whose answers both carry an RRSIG and a DNSKEY: "valid" twice.
C20_Witness ==
    \E t1, t2 \in SecThreads :
        /\ t1 # t2
        /\ shist[t1].probe_log # <<>> /\ shist[t2].probe_log # <<>>
        /\ shist[t1].probe_log[1][2] =
               [raised |-> FALSE, has_rrsig |-> TRUE, has_dnskey |-> TRUE]
        /\ shist[t2].probe_log[1][2] = shist[t1].probe_log[1][2]
        /\ SecResultsOf(t1)[1].status = "valid"
        /\ SecResultsOf(t2)[1].status = "valid"

\* --------------------------------------------------- security check cycle
SecSent(t) == shist[t].sent
SecDone(t) == st[t].pc = "done"
\* The servers SecurityThread t has processed so far.
Processed(t) == Len(shist[t].probe_log)
\* int((i + 1) / n * 100) for the server with index i = j - 1.
CyclePct(j, n) == ((j * 100) \div n) - (IF <<j, n>> \in FloatShort THEN 1 ELSE 0)
SecFinishedAt(t) == {k \in DOMAIN SecSent(t) : SecSent(t)[k].kind = "sec_finished"}

\* C21: a check cycle emits, for each server it processes and in input order,
\* one (name, status) event followed by the progress value int((i+1)/n*100);
\* the progress values never decrease and the last one is 100 when the cycle
\* is not cancelled; the completion signal is emitted exactly once, as the
\* last event, also when the cycle is cancelled or a query fails, and never
\* before the cycle has ended.
C21_CycleEvents ==
    \A t \in SecThreads :
        LET n == Len(st[t].servers)
            p == Processed(t)
        IN  /\ Len(SecSent(t)) = 2 * p + (IF SecDone(t) THEN 1 ELSE 0)
            /\ \A j \in 1..p :
                   /\ SecSent(t)[2 * j - 1].kind = "sec_result"
                   /\ SecSent(t)[2 * j - 1].msg = st[t].servers[j]
                   /\ SecSent(t)[2 * j - 1].status \in {"valid", "signed", "unsigned", "error"}
                   /\ SecSent(t)[2 * j].kind = "sec_progress"
                   /\ SecSent(t)[2 * j].pct = CyclePct(j, n)
                   /\ j > 1 => SecSent(t)[2 * j - 2].pct <= SecSent(t)[2 * j].pct
            /\ (SecDone(t) /\ ~shist[t].stopped) =>
                   /\ p = n
                   /\ n > 0 => SecSent(t)[2 * n].pct = 100
            /\ SecFinishedAt(t) = IF SecDone(t) THEN {Len(SecSent(t))} ELSE {}

\* A cycle over three servers, cancelled after the second, whose first query
\* failed: two pairs of events, then the completion signal.
C21_Witness ==
    \E t \in SecThreads :
        /\ SecDone(t) /\ shist[t].stopped
        /\ Len(st[t].servers) = 3
        /\ Processed(t) = 2
        /\ SecSent(t)[1].status = "error"
        /\ SecSent(t)[4].pct = 66
        /\ SecSent(t)[5].kind = "sec_finished"

\* ----------------------------------------------------------------- ranking
\* x stands before y in self.results.
InputBefore(x, y) ==
    \E a, b \in DOMAIN results : a < b /\ results[a] = x /\ results[b] = y
\* The metric the latency mode `mode` ranks by.
Metric(mode, r) ==
    CASE mode = 0 -> r.cached_avg
      [] mode = 1 -> r.uncached_avg
      [] OTHER    -> r.overall_avg
\* The names of a result list, in order.
NamesOf(s) == [k \in DOMAIN s |-> s[k].name]

\* C22: in the three latency modes the ranked list is ascending by the
\* chosen average, every entry whose average is 0 stands after every entry
\* with a positive one, and entries with equal averages keep the order they
\* have in self.results.
C22_LatencyModes ==
    (results # <<>> /\ sort_mode \in 0..2) =>
        /\ Len(filtered_results) = Len(results)
        /\ \A i, j \in DOMAIN filtered_results :
               i < j =>
                   LET x == filtered_results[i]
                       y == filtered_results[j]
                       mx == Metric(sort_mode, x)
                       my == Metric(sort_mode, y)
                   IN  /\ (Positive(mx) /\ Positive(my)) => RatLeq(mx, my)
                       /\ mx = Zero => my = Zero
                       /\ mx = my => InputBefore(x, y)

\* By uncached average: the first input entry has no data and the other two
\* tie, so they come first, in input order.
C22_Witness ==
    /\ sort_mode = 1
    /\ Len(results) = 3
    /\ results[1].uncached_avg = Zero
    /\ results[2].uncached_avg = RatOfInt(1)
    /\ results[3].uncached_avg = RatOfInt(1)
    /\ results[2].cached_avg = Rat(3, 2)
    /\ results[3].cached_avg = Zero
    /\ NamesOf(filtered_results) = <<2, 3, 1>>

\* C23: in the mode "slowest first" the ranked list is descending by
\* overall_avg, every entry whose overall_avg is 0 stands after every entry
\* with a positive one, and entries with equal overall_avg keep the order
\* they have in self.results.
C23_SlowestFirst ==
    (results # <<>> /\ sort_mode = 3) =>
        /\ Len(filtered_results) = Len(results)
        /\ \A i, j \in DOMAIN filtered_results :
               i < j =>
                   LET x == filtered_results[i]
                       y == filtered_results[j]
                   IN  /\ RatLeq(y.overall_avg, x.overall_avg)
                       /\ x.overall_avg = Zero => y.overall_avg = Zero
                       /\ x.overall_avg = y.overall_avg => InputBefore(x, y)

\* No data first in the input, then two entries that tie at 1 (one from its
\* cached phase alone, one from both phases).
C23_Witness ==
    /\ sort_mode = 3
    /\ Len(results) = 3
    /\ results[1].overall_avg = Zero
    /\ results[2].overall_avg = RatOfInt(1)
    /\ results[3].overall_avg = RatOfInt(1)
    /\ results[2].uncached_avg = Zero
    /\ results[3].uncached_avg = RatOfInt(1)
    /\ NamesOf(filtered_results) = <<2, 3, 1>>

\* The reliabilities of a result list, in order.
ReliabilitiesOf(s) == [k \in DOMAIN s |-> s[k].reliability]

\* C24: in the mode "most reliable" the ranked list is descending by
\* reliability and entries with equal reliability keep the order they have in
\* self.results; the results [A: 50 %, B: 100 %, C: 75 %] are ranked B, C, A.
C24_MostReliable ==
    (results # <<>> /\ sort_mode = 4) =>
        /\ Len(filtered_results) = Len(results)
        /\ \A i, j \in DOMAIN filtered_results :
               i < j =>
                   LET x == filtered_results[i]
                       y == filtered_results[j]
                   IN  /\ RatLeq(y.reliability, x.reliability)
                       /\ x.reliability = y.reliability => InputBefore(x, y)
        /\ ReliabilitiesOf(results) = <<RatOfInt(50), RatOfInt(100), RatOfInt(75)>> =>
               /\ NamesOf(filtered_results) = <<2, 3, 1>>
               /\ ReliabilitiesOf(filtered_results) =
                      <<RatOfInt(100), RatOfInt(75), RatOfInt(50)>>

\* The example: 50 %, 100 %, 75 % ranked by reliability.
C24_Witness ==
    /\ sort_mode = 4
    /\ ReliabilitiesOf(results) = <<RatOfInt(50), RatOfInt(100), RatOfInt(75)>>
    /\ NamesOf(filtered_results) = <<2, 3, 1>>

\* Two entries that tie at 50 % before one with 100 %.
C24_TieWitness ==
    /\ sort_mode = 4
    /\ ReliabilitiesOf(results) = <<RatOfInt(50), RatOfInt(50), RatOfInt(100)>>
    /\ NamesOf(filtered_results) = <<3, 1, 2>>

\* How often x occurs in the list s.
Count(s, x) == Cardinality({k \in DOMAIN s : s[k] = x})
\* a and b hold the same elements, each as often in a as in b.
IsPermutation(a, b) ==
    /\ Len(a) = Len(b)
    /\ \A k \in DOMAIN a : Count(a, a[k]) = Count(b, a[k])

\* A call of apply_filter leaves self.results as it is.
FilterKeepsResults == ChangeFilter => results' = results
\* After a call of apply_filter the ranked list is a permutation of
\* self.results.
FilterGivesPermutation ==
    ChangeFilter => IsPermutation(filtered_results', results')
\* self.results changes only when a run's results arrive (to the list
\* delivered, in the order delivered) and when a benchmark is started (to the
\* empty list).
ResultsKeepOrder ==
    results' # results =>
        \/ queue # <<>> /\ Head(queue).kind = "finished"
              /\ results' = Head(queue).results
        \/ results' = <<>>

\* C25 as claimed: every call of apply_filter, whatever the sort mode and
\* whatever the calls before it, leaves self.results unchanged and leaves in
\* self.filtered_results a permutation of self.results.
C25_AlwaysPermutation ==
    [][FilterKeepsResults]_vars /\ [][FilterGivesPermutation]_vars

\* C25 amended: apply_filter never changes self.results, which holds the
\* delivered list in the delivered order; while self.results is not empty the
\* ranked list is a permutation of it; with self.results empty apply_filter
\* ranks nothing and self.filtered_results keeps the value it had.
C25_PermutationWhenResults ==
    /\ [][FilterKeepsResults]_vars
    /\ [][ResultsKeepOrder]_vars
    /\ [](results # <<>> => IsPermutation(filtered_results, results))
    /\ [][(ChangeFilter /\ results = <<>>) =>
              filtered_results' = filtered_results]_vars

\* Three results shown slowest first, in another order than self.results
\* holds them.
C25_Witness ==
    /\ sort_mode = 3
    /\ Len(results) = 3
    /\ NamesOf(results) = <<1, 2, 3>>
    /\ NamesOf(filtered_results) = <<3, 1, 2>>

\* ------------------------------------------------------------ query names
\* The positions in run t's probe log of the probes of the uncached phase.
UncachedAt(t) ==
    {k \in DOMAIN hist[t].probe_log : hist[t].probe_log[k][2] = "uncached"}
NameAt(t, k) == hist[t].probe_log[k][4]

\* C26 as claimed: no two probes of the uncached phase of a run ask for the
\* same name.
C26_NamesDistinct ==
    \A t \in Threads : \A a, b \in UncachedAt(t) :
        a # b => NameAt(t, a) # NameAt(t, b)

\* C26 amended: every probe of the uncached phase asks for a name generated
\* for that probe, one of the names of 8 random letters and never the name
\* the cached phase asks for; every probe of the cached phase asks for that
\* one fixed name.  Two uncached names of a run can be equal.
C26_RandomNamePerProbe ==
    \A t \in Threads : \A k \in DOMAIN hist[t].probe_log :
        IF k \in UncachedAt(t)
        THEN NameAt(t, k) \in RandomNames /\ NameAt(t, k) # CachedName
        ELSE NameAt(t, k) = CachedName

\* A campaign whose two uncached probes asked for different names.
C26_Witness ==
    \E t \in Threads :
        /\ Done(t) /\ ~hist[t].stopped
        /\ Cardinality(UncachedAt(t)) = 2
        /\ \E a, b \in UncachedAt(t) : NameAt(t, a) # NameAt(t, b)

\* ---------------------------------------------------------------- retries
\* The probes of one phase made so far for the server run t is working on.
PhaseProbes(t, phase) == Len(ProbesFor(t, bt[t].idx + 1, phase))

\* C27: there are no retries.  A benchmark run issues at most query_count
\* probes per server and phase, so at most 2 * query_count per server, one
\* per loop iteration whether the call is answered or fails; a security check
\* issues exactly one query per server it processes.
C27_NoRetries ==
    /\ \A t \in Threads :
           /\ \A k \in 1..Total(t) :
                  /\ Len(ProbesFor(t, k, "cached")) <= bt[t].query_count
                  /\ Len(ProbesFor(t, k, "uncached")) <= bt[t].query_count
                  /\ ProbesIssued(t, k) <= 2 * bt[t].query_count
           /\ bt[t].pc \in {"ccheck", "cprobe"} =>
                  /\ PhaseProbes(t, "cached") = bt[t].i
                  /\ PhaseProbes(t, "uncached") = 0
           /\ bt[t].pc \in {"ucheck", "uprobe"} => PhaseProbes(t, "uncached") = bt[t].i
           /\ ~bt[t].count_is_int => hist[t].probe_log = <<>>
    /\ \A t \in SecThreads :
           /\ Processed(t) = st[t].i
           /\ \A j \in DOMAIN shist[t].probe_log : shist[t].probe_log[j][1] = j - 1
           /\ Len(SecResultsOf(t)) = Processed(t)

\* A run over two servers that is not stopped and whose probes all fail:
\* two calls per server, no more.
C27_Witness ==
    \E t \in Threads :
        /\ Done(t) /\ ~hist[t].stopped
        /\ Total(t) = 2 /\ bt[t].query_count = 1
        /\ AllFailed(t, 1) /\ AllFailed(t, 2)
        /\ Len(hist[t].probe_log) = 4

\* A check over three servers whose queries all raised: three queries.
C27_SecWitness ==
    \E t \in SecThreads :
        /\ SecDone(t) /\ ~shist[t].stopped
        /\ Len(st[t].servers) = 3
        /\ Processed(t) = 3
        /\ \A j \in 1..3 : shist[t].probe_log[j][2].raised

\* ------------------------------------------------------------ termination
\* No worker is inside run().
AllReturned ==
    /\ \A t \in Threads : ~IsRunning(t)
    /\ \A t \in SecThreads : ~SecIsRunning(t)
\* After stop() no further call is issued: the calls issued are those issued
\* when stop() came, the one in flight among them.
NoCallAfterStop ==
    /\ \A t \in Threads : hist[t].stopped => Issued(t) = hist[t].stop_issued
    /\ \A t \in SecThreads : shist[t].stopped => SecIssued(t) = shist[t].stop_issued

\* C28: given that every DNS call returns or raises, every benchmark run and
\* every security check returns from run() and stays returned, whatever the
\* outcomes and whether or not stop() is called; and after stop() a worker
\* issues no further call, so it ends after at most the call in flight.
C28_Terminates ==
    /\ <>[]AllReturned
    /\ []NoCallAfterStop

\* A run over two servers stopped inside its first probe: it has returned,
\* having issued that one call.
C28_Witness ==
    \E t \in Threads :
        /\ Done(t)
        /\ hist[t].stopped /\ hist[t].stop_pc = "cprobe"
        /\ Total(t) = 2
        /\ Len(hist[t].probe_log) = 1
        /\ hist[t].stop_issued = 1

\* -------------------------------------------------------- superseded runs
\* start_benchmark has called stop() on BenchThread old and has started the
\* BenchThread that replaces it.
Superseded(old) ==
    /\ hist[old].stopped
    /\ bench_thread # 0 /\ bench_thread > old
\* benchmark_done is invoked with the results of a run that is not superseded.
DeliversLatest == BenchmarkDone => ~Superseded(Head(queue).src)
\* While the run that replaced a stopped one is active, self.results holds
\* nothing of another run and the start button stays disabled.
LatestRunOnly ==
    (IsRunning(bench_thread) /\ \E old \in Threads : Superseded(old)) =>
        results = <<>> /\ ~start_btn

\* C29: once start_benchmark has called stop() on the old BenchThread and
\* has started a new one, benchmark_done is never invoked with the old run's
\* results: self.results holds no results of another run than the latest and
\* the start button is not enabled while the new run is active.
C29_SupersededNeverDelivered ==
    [][DeliversLatest]_vars /\ [](bench_thread # 0 => LatestRunOnly)

(***************************************************************************)
(* C30.  After any sequence of setValue, setRange (minimum <= maximum),    *)
(* arrow steps and finished edits, with any typed text, value() of the     *)
(* integer ModernSpinWidget lies in [min, max]; hence the query count      *)
(* handed to a BenchThread is an integer within the range of the field,    *)
(* which is [3, 20] as the window constructs it.                           *)
(***************************************************************************)
SpinRange == query_spin.min..query_spin.max

ValueInRange == ~query_spin.editing => ValueOf(query_spin) \in SpinRange

HandsCountInRange ==
    bench_thread' # bench_thread =>
        /\ bt'[bench_thread'].count_is_int
        /\ bt'[bench_thread'].query_count \in SpinRange
        /\ ~query_spin.ranged => bt'[bench_thread'].query_count \in SpinMin..SpinMax

C30_SpinValueInRange == []ValueInRange /\ [][HandsCountInRange]_vars

\* A finished edit of a number above the maximum was clamped and the run
\* started with the maximum.
C30_Witness ==
    /\ query_spin.finished = Num(2 * SpinMax + MaxTyped)
    /\ ~query_spin.ranged
    /\ bench_thread # 0
    /\ bt[bench_thread].query_count = SpinMax

\* A word that is no number was typed and the run started with the minimum.
C30_GarbageWitness ==
    /\ query_spin.finished = Garbage
    /\ ~query_spin.ranged
    /\ bench_thread # 0
    /\ bt[bench_thread].query_count = SpinMin

=============================================================================
